---- MODULE Spec2Model ----
(***************************************************************************)
(* Model of src/tasks.py: the Celery task `command` of                     *)
(* openrelik-worker-tsk.  One invocation classifies every input file by    *)
(* its display name, spawns the matching TSK tool with its standard output *)
(* redirected into a fresh output file, and returns a task result.         *)
(*                                                                         *)
(* Strings are TLA+ strings (Len, SubSeq and \o act on them as on Python   *)
(* strings).  Python's None is the empty tuple <<>> and a present value v  *)
(* is <<v>>, where a variable can hold either.                             *)
(***************************************************************************)
EXTENDS Integers, Sequences, FiniteSets, TLC

VARIABLES input_files, artifact_types, output_path,
          pc, i, file_name, matched_type, output_file, command,
          output_files, procs, disk, result, error, run, first

vars == <<input_files, artifact_types, output_path,
          pc, i, file_name, matched_type, output_file, command,
          output_files, procs, disk, result, error, run, first>>

-----------------------------------------------------------------------------
(* Bounds of the model. *)

\* longest list of input files handed to one invocation
MaxFiles == 2
\* longest list of requested artifact types (task_config["artifact_types"])
MaxTypes == 2
\* most name parts concatenated into a display name (classification only)
MaxParts == 2

-----------------------------------------------------------------------------
(* Python built-ins used by the task. *)

None == <<>>

Some(v) == <<v>>

UpperCase == "ABCDEFGHIJKLMNOPQRSTUVWXYZ"

LowerCase == "abcdefghijklmnopqrstuvwxyz"

\* str.lower() on one character
LowerChar(c) ==
    IF \E k \in 1..Len(UpperCase) : SubSeq(UpperCase, k, k) = c
    THEN LET k == CHOOSE k \in 1..Len(UpperCase) : SubSeq(UpperCase, k, k) = c
         IN  SubSeq(LowerCase, k, k)
    ELSE c

RECURSIVE Lower(_)
\* str.lower()
Lower(s) ==
    IF Len(s) = 0 THEN ""
    ELSE LowerChar(SubSeq(s, 1, 1)) \o Lower(SubSeq(s, 2, Len(s)))

\* `t in s` on strings: t occurs in s at some offset
Contains(t, s) ==
    \E k \in 0..(Len(s) - Len(t)) : SubSeq(s, k + 1, k + Len(t)) = t

RECURSIVE Join(_, _)
\* sep.join(parts)
Join(sep, parts) ==
    IF Len(parts) = 0 THEN ""
    ELSE IF Len(parts) = 1 THEN parts[1]
    ELSE parts[1] \o sep \o Join(sep, Tail(parts))

Min(a, b) == IF a <= b THEN a ELSE b

\* zip(xs, ys): pairs up to the shorter of the two lists
Zip(xs, ys) == [k \in 1..Min(Len(xs), Len(ys)) |-> <<xs[k], ys[k]>>]

\* list.append mutated: the new element is put in front
ListPrepend(l, x) == <<x>> \o l

\* list.append
ListAppend(l, x) == Append(l, x)

-----------------------------------------------------------------------------
(* The registry and the classification. *)

\* the `commands` dictionary
commands ==
    [t \in {"mft", "journal", "boot_log", "logfile", "io3"} |->
        IF t = "mft" THEN <<"fls", "-r">> ELSE <<"icat">>]

RECURSIVE LastMatchFrom(_, _, _)
LastMatchFrom(types, name, j) ==
    IF j < 1 THEN None
    ELSE IF Contains(types[j], name) THEN Some(types[j])
    ELSE LastMatchFrom(types, name, j - 1)

RECURSIVE NextMatch(_, _, _)
\* next(generator, None): the generator is consumed from position j on
NextMatch(types, name, j) ==
    IF j > Len(types) THEN None
    ELSE IF Contains(types[j], name) THEN Some(types[j])
    ELSE NextMatch(types, name, j + 1)

\* the classification mutated: the last requested type that matches wins
LastMatch(types, name) == LastMatchFrom(types, name, Len(types))

\* next((t for t in artifact_types if t in file_name), None)
FirstMatch(types, name) == NextMatch(types, name, 1)

\* the guard mutated: the registry is not consulted
TruthyOnly(m) == m # None /\ m[1] # ""

\* `matched_type and matched_type in commands`
Selected(m) == m # None /\ m[1] # "" /\ m[1] \in DOMAIN commands

\* commands[t], which raises KeyError for a key the dictionary lacks
HasKey(t) == t \in DOMAIN commands

-----------------------------------------------------------------------------
(* The collaborators of openrelik_worker_common, as the task uses them. *)

\* create_output_file mutated: the display name is taken from the directory
create_output_file_swapped(dir, display_name, extension, data_type, uuid) ==
    [path         |-> dir \o "/" \o uuid \o extension,
     display_name |-> dir,
     extension    |-> extension,
     data_type    |-> data_type]

\* create_output_file(output_path, display_name=, extension=, data_type=):
\* a fresh OutputFile below the output directory
create_output_file(dir, display_name, extension, data_type, uuid) ==
    [path         |-> dir \o "/" \o uuid \o extension,
     display_name |-> display_name,
     extension    |-> extension,
     data_type    |-> data_type]

\* OutputFile.to_dict()
to_dict(o) ==
    [path         |-> o.path,
     display_name |-> o.display_name,
     extension    |-> o.extension,
     data_type    |-> o.data_type]

\* the command line mutated: the display name is passed instead of the path
BuildCommandByName(t, f) == commands[t] \o <<f.display_name>>

\* commands[matched_type] + [input_file.get("path")]
BuildCommand(t, f) == commands[t] \o <<f.path>>

\* the keys zip() hands to commands[...] while the summary is built
SummaryKeys == [k \in 1..Min(Len(artifact_types), Len(output_files)) |-> artifact_types[k]]

\* "; ".join([" ".join(commands[t] + [f.get('path')]) for t, f in zip(...)])
SummaryOf(types, outs) ==
    Join("; ", [k \in 1..Len(Zip(types, outs)) |->
                  Join(" ", commands[Zip(types, outs)[k][1]]
                            \o <<Zip(types, outs)[k][2].path>>)])

workflow_id == "wf"

\* create_task_result(output_files=, workflow_id=, command=, meta={})
create_task_result(outs, wf, cmd) ==
    [output_files |-> outs, workflow_id |-> wf, command |-> cmd, meta |-> <<>>]

-----------------------------------------------------------------------------
(* Inputs. *)

\* the input files an invocation can be handed (display name, path)
Catalog ==
    { [display_name |-> "MFT_C.bin",       path |-> "/evidence/a"],
      [display_name |-> "$LogFile.bin",    path |-> "/evidence/b"],
      [display_name |-> "random.txt",      path |-> "/evidence/c"],
      [display_name |-> "MFT",             path |-> "/evidence/d"],
      [display_name |-> "io3_boot_log",    path |-> "/evidence/e"],
      [display_name |-> "UsnJrnl_journal", path |-> "/evidence/f"] }

\* the five registered identifiers and one the registry lacks
TypeIds == {"mft", "journal", "boot_log", "logfile", "io3", "bin"}

SeqsUpTo(S, n) == UNION { [1..k -> S] : k \in 0..n }

NoRepeat(s) == \A a, b \in DOMAIN s : a # b => s[a] # s[b]

\* a checkbox selection: every identifier at most once, in some order
TypeLists(ids) == { s \in SeqsUpTo(ids, MaxTypes) : NoRepeat(s) }

\* lists of distinct input files
FileLists == { s \in SeqsUpTo(Catalog, MaxFiles) : NoRepeat(s) }

NameParts == {"MFT", "m", "ft", "Journal", "LogFile", "io3", "boot_log", ".bin"}

RECURSIVE Names(_)
\* display names made of at most n parts
Names(n) ==
    IF n = 0 THEN {""}
    ELSE Names(n - 1) \cup { a \o b : a \in Names(n - 1), b \in NameParts }

-----------------------------------------------------------------------------
(* The task, lines 71-109. *)

Locals ==
    /\ pc = "loop"
    /\ i = 1
    /\ file_name = ""
    /\ matched_type = None
    /\ output_file = None
    /\ command = <<>>
    /\ output_files = <<>>
    /\ procs = <<>>
    /\ disk = {}
    /\ result = None
    /\ error = "none"

Init ==
    /\ input_files \in FileLists
    /\ artifact_types \in TypeLists(TypeIds)
    /\ output_path = "/out/1"
    /\ run = 1
    /\ first = None
    /\ Locals

\* lines 83-87: the next input file is classified
Classify ==
    /\ pc = "loop"
    /\ i <= Len(input_files)
    /\ file_name' = Lower(input_files[i].display_name)
    /\ matched_type' = FirstMatch(artifact_types, file_name')
    /\ IF Selected(matched_type')
       THEN pc' = "create" /\ i' = i
       ELSE pc' = "loop" /\ i' = i + 1
    /\ UNCHANGED <<input_files, artifact_types, output_path, output_file, command,
                   output_files, procs, disk, result, error, run, first>>

\* lines 88-95: the OutputFile object and the command line
CreateOutput ==
    /\ pc = "create"
    /\ output_file' = Some(create_output_file(output_path, input_files[i].display_name,
                                              ".txt", "filesystem_artifact", ToString(i)))
    /\ IF HasKey(matched_type[1])
       THEN /\ command' = BuildCommand(matched_type[1], input_files[i])
            /\ pc' = "open"
            /\ error' = error
       ELSE /\ command' = command
            /\ pc' = "raised"
            /\ error' = "KeyError"
    /\ UNCHANGED <<input_files, artifact_types, output_path, i, file_name, matched_type,
                   output_files, procs, disk, result, run, first>>

\* line 97: the destination is opened for writing
OpenDest ==
    /\ pc = "open"
    /\ disk' = disk \cup {output_file[1].path}
    /\ pc' = "spawn"
    /\ UNCHANGED <<input_files, artifact_types, output_path, i, file_name, matched_type,
                   output_file, command, output_files, procs, result, error, run, first>>

\* line 97: open() raises
OpenFails ==
    /\ pc = "open"
    /\ pc' = "raised"
    /\ error' = "OSError"
    /\ UNCHANGED <<input_files, artifact_types, output_path, i, file_name, matched_type,
                   output_file, command, output_files, procs, disk, result, run, first>>

\* line 98: the process is started, its standard output is the open file
Spawn ==
    /\ pc = "spawn"
    /\ procs' = Append(procs, [args |-> command, stdout |-> output_file[1].path,
                               status |-> "running"])
    /\ pc' = "append"
    /\ UNCHANGED <<input_files, artifact_types, output_path, i, file_name, matched_type,
                   output_file, command, output_files, disk, result, error, run, first>>

\* line 98: Popen raises (the program cannot be started)
SpawnFails ==
    /\ pc = "spawn"
    /\ pc' = "raised"
    /\ error' = "OSError"
    /\ UNCHANGED <<input_files, artifact_types, output_path, i, file_name, matched_type,
                   output_file, command, output_files, procs, disk, result, run, first>>

\* line 100 mutated: the task waits for the process and keeps successes only
RecordOutputChecked ==
    /\ pc = "append"
    /\ procs[Len(procs)].status # "running"
    /\ output_files' = IF procs[Len(procs)].status = "exited"
                       THEN ListAppend(output_files, to_dict(output_file[1]))
                       ELSE output_files
    /\ i' = i + 1
    /\ pc' = "loop"
    /\ UNCHANGED <<input_files, artifact_types, output_path, file_name, matched_type,
                   output_file, command, procs, disk, result, error, run, first>>

\* line 100: the OutputFile is recorded, the loop goes on
RecordOutput ==
    /\ pc = "append"
    /\ output_files' = ListAppend(output_files, to_dict(output_file[1]))
    /\ i' = i + 1
    /\ pc' = "loop"
    /\ UNCHANGED <<input_files, artifact_types, output_path, file_name, matched_type,
                   output_file, command, procs, disk, result, error, run, first>>

\* lines 102-103 mutated: the error is raised unless every input produced a file
NoArtifactsUnlessAll == Len(output_files) < Len(input_files)

\* line 102: `not output_files`
NoArtifacts == output_files = <<>>

\* lines 102-103: nothing was produced
RaiseNoArtifacts ==
    /\ pc = "loop"
    /\ i > Len(input_files)
    /\ NoArtifacts
    /\ pc' = "raised"
    /\ error' = "RuntimeError"
    /\ UNCHANGED <<input_files, artifact_types, output_path, i, file_name, matched_type,
                   output_file, command, output_files, procs, disk, result, run, first>>

\* line 107: commands[t] raises for a requested type the registry lacks
SummaryKeyError ==
    /\ pc = "loop"
    /\ i > Len(input_files)
    /\ ~NoArtifacts
    /\ \E k \in DOMAIN SummaryKeys : ~HasKey(SummaryKeys[k])
    /\ pc' = "raised"
    /\ error' = "KeyError"
    /\ UNCHANGED <<input_files, artifact_types, output_path, i, file_name, matched_type,
                   output_file, command, output_files, procs, disk, result, run, first>>

\* lines 104-109: the task result is returned
ReturnResult ==
    /\ pc = "loop"
    /\ i > Len(input_files)
    /\ ~NoArtifacts
    /\ \A k \in DOMAIN SummaryKeys : HasKey(SummaryKeys[k])
    /\ result' = Some(create_task_result(output_files, workflow_id,
                                         SummaryOf(artifact_types, output_files)))
    /\ pc' = "done"
    /\ UNCHANGED <<input_files, artifact_types, output_path, i, file_name, matched_type,
                   output_file, command, output_files, procs, disk, error, run, first>>

\* a spawned process ends on its own, with exit status 0 or not
ProcExit ==
    \E k \in DOMAIN procs, s \in {"exited", "failed"} :
        /\ procs[k].status = "running"
        /\ procs' = [procs EXCEPT ![k].status = s]
        /\ UNCHANGED <<input_files, artifact_types, output_path, pc, i, file_name,
                       matched_type, output_file, command, output_files, disk, result,
                       error, run, first>>

Next ==
    \/ Classify
    \/ CreateOutput
    \/ OpenDest
    \/ OpenFails
    \/ Spawn
    \/ SpawnFails
    \/ RecordOutput
    \/ RaiseNoArtifacts
    \/ SummaryKeyError
    \/ ReturnResult
    \/ ProcExit

Spec == Init /\ [][Next]_vars

-----------------------------------------------------------------------------
(* The classification alone, over display names built from name parts. *)

InitClassify ==
    /\ input_files \in { <<[display_name |-> n, path |-> "/evidence/a"]>> : n \in Names(MaxParts) }
    /\ artifact_types \in TypeLists(TypeIds)
    /\ output_path = "/out/1"
    /\ run = 1
    /\ first = None
    /\ Locals

NextClassify == Classify

SpecClassify == InitClassify /\ [][NextClassify]_vars

-----------------------------------------------------------------------------
(* Two invocations over the same input files and requested types, the      *)
(* second one with another output directory.  The variables of the task    *)
(* are those of the invocation in progress.                                *)

Rerun ==
    /\ pc = "done"
    /\ run = 1
    /\ first' = result
    /\ run' = 2
    /\ output_path' = "/out/2"
    /\ pc' = "loop"
    /\ i' = 1
    /\ file_name' = ""
    /\ matched_type' = None
    /\ output_file' = None
    /\ command' = <<>>
    /\ output_files' = <<>>
    /\ procs' = <<>>
    /\ disk' = {}
    /\ result' = None
    /\ error' = "none"
    /\ UNCHANGED <<input_files, artifact_types>>

NextTwice ==
    \/ Next
    \/ Rerun

SpecTwice == Init /\ [][NextTwice]_vars

-----------------------------------------------------------------------------
(* Vocabulary of the properties, stated without the operators of the task. *)

RegisteredTypes == {"mft", "journal", "boot_log", "logfile", "io3"}

\* the template the registry table lists for a registered type
TemplateOf(t) == IF t = "mft" THEN <<"fls", "-r">> ELSE <<"icat">>

Range(s) == { s[k] : k \in DOMAIN s }

\* the requested positions whose identifier occurs in the lowercased name of file k
\* for each catalog name, the identifiers that occur in its lowercased form
Occurring ==
    [n \in { f.display_name : f \in Catalog } |->
        { t \in TypeIds : Contains(t, Lower(n)) }]

Hits(k) ==
    IF input_files[k].display_name \in DOMAIN Occurring
    THEN { j \in DOMAIN artifact_types :
             artifact_types[j] \in Occurring[input_files[k].display_name] }
    ELSE LET l == Lower(input_files[k].display_name)
         IN  { j \in DOMAIN artifact_types : Contains(artifact_types[j], l) }

MinOf(S) == CHOOSE a \in S : \A b \in S : a <= b

\* the earliest requested type that occurs in the name of file k, if any
Chosen(k) ==
    LET h == Hits(k)
    IN  IF h = {} THEN None ELSE Some(artifact_types[MinOf(h)])

\* file k is dispatched: its chosen type is registered
Dispatched(k) ==
    LET c == Chosen(k)
    IN  c # None /\ c[1] \in RegisteredTypes

\* some requested type that is registered occurs in the name of file k
MatchesRegistered(k) == \E j \in Hits(k) : artifact_types[j] \in RegisteredTypes

RECURSIVE DispatchedUpTo(_)
\* the dispatched files among the first n, in input order
DispatchedUpTo(n) ==
    IF n = 0 THEN <<>>
    ELSE IF Dispatched(n) THEN Append(DispatchedUpTo(n - 1), n)
    ELSE DispatchedUpTo(n - 1)

\* l is s with every upper-case letter replaced by its lower-case letter
IsLowerOf(l, s) ==
    /\ Len(l) = Len(s)
    /\ \A k \in 1..Len(s) :
         LET c == SubSeq(s, k, k)
             d == SubSeq(l, k, k)
         IN  \/ /\ ~Contains(c, UpperCase)
                /\ d = c
             \/ \E m \in 1..Len(UpperCase) :
                  /\ c = SubSeq(UpperCase, m, m)
                  /\ d = SubSeq(LowerCase, m, m)

\* the file the variables file_name and matched_type are about (0: none yet)
LastClassified == IF i <= Len(input_files) /\ pc # "loop" THEN i ELSE i - 1

RECURSIVE Split(_, _)
\* s.split(sep)
Split(s, sep) ==
    IF ~Contains(sep, s) THEN <<s>>
    ELSE LET k == MinOf({ o \in 0..(Len(s) - Len(sep)) : SubSeq(s, o + 1, o + Len(sep)) = sep })
         IN  <<SubSeq(s, 1, k)>> \o Split(SubSeq(s, k + Len(sep) + 1, Len(s)), sep)

Terminal == pc \in {"done", "raised"}

-----------------------------------------------------------------------------
(* C1 *)

\* C1: the classification selects the first requested type, in the order of
\* the request, whose identifier occurs anywhere in the lowercased display
\* name, and selects nothing when no requested identifier occurs in it.
C1_FirstRequestedSubstringWins ==
    LastClassified >= 1 =>
        /\ IsLowerOf(file_name, input_files[LastClassified].display_name)
        /\ (matched_type = None) <=>
              (\A j \in DOMAIN artifact_types : ~Contains(artifact_types[j], file_name))
        /\ matched_type # None =>
              \E j \in DOMAIN artifact_types :
                  /\ matched_type = Some(artifact_types[j])
                  /\ Contains(artifact_types[j], file_name)
                  /\ \A h \in 1..(j - 1) : ~Contains(artifact_types[h], file_name)

\* C1 witness: two requested types occur in a name with upper-case letters,
\* the second requested one at the front of the name, and the first
\* requested one was selected.
C1_Witness ==
    /\ LastClassified = 1
    /\ Len(artifact_types) = 2
    /\ file_name # input_files[1].display_name
    /\ Contains(artifact_types[1], file_name)
    /\ Len(artifact_types[2]) <= Len(file_name)
    /\ SubSeq(file_name, 1, Len(artifact_types[2])) = artifact_types[2]
    /\ matched_type = Some(artifact_types[1])

-----------------------------------------------------------------------------
(* C2 *)

\* C2: the run ends with the no-artifacts error exactly when every input
\* file was iterated and no OutputFile was produced; it does so whenever no
\* input name contains a requested type (an empty input list included), and
\* never once an OutputFile has been appended.
C2_NoArtifactsIffNothingProduced ==
    /\ error = "RuntimeError" =>
          pc = "raised" /\ i > Len(input_files) /\ output_files = <<>>
    /\ (Terminal /\ i > Len(input_files) /\ output_files = <<>>) => error = "RuntimeError"
    /\ (Terminal /\ \A k \in DOMAIN input_files : Hits(k) = {}) => error = "RuntimeError"
    /\ output_files # <<>> => error # "RuntimeError"

\* C2 witness: two input files were iterated, one of them named after a
\* requested type the registry lacks, and the run ended with the error.
C2_Witness ==
    /\ error = "RuntimeError"
    /\ Len(input_files) = 2
    /\ \E k \in DOMAIN input_files : Hits(k) # {}

-----------------------------------------------------------------------------
(* C3 *)

\* C3: every entry of the returned command summary is the command line of
\* one spawned process whose output file is in the result, that is the
\* matched template followed by the input file's path.
C3_SummaryEntriesAreCommandsUsed ==
    pc = "done" =>
        \A e \in Range(Split(result[1].command, "; ")) :
            \E p \in Range(procs) :
                /\ e = Join(" ", p.args)
                /\ \E o \in Range(result[1].output_files) : o.path = p.stdout

-----------------------------------------------------------------------------
(* C4 *)

\* C4: the returned command summary holds exactly one entry per OutputFile.
C4_OneSummaryEntryPerOutput ==
    pc = "done" =>
        Len(Split(result[1].command, "; ")) = Len(result[1].output_files)

-----------------------------------------------------------------------------
(* C5 *)

\* C5: once an OutputFile has been produced the run does not end in an
\* error.
C5_NoFailureOnceProduced ==
    output_files # <<>> => error = "none"

-----------------------------------------------------------------------------
(* C6 *)

\* a step of the task on a file whose chosen type the registry lacks
C6_UnregisteredStep ==
    /\ pc = "loop"
    /\ i <= Len(input_files)
    /\ Chosen(i) # None
    /\ Chosen(i)[1] \notin RegisteredTypes
    /\ (pc' # pc \/ i' # i)

-----------------------------------------------------------------------------
(* C7 *)

-----------------------------------------------------------------------------
(* C8 *)

-----------------------------------------------------------------------------
(* C9 *)

\* C9: the processes are, in input order, those of the dispatched files
\* reached so far, one each: the arguments are the template of the chosen
\* type followed by the input path, standard output is the file created for
\* that input, already open; an OutputFile is recorded only after its
\* process was spawned.
C9_OneProcessPerDispatchedFile ==
    LET d == DispatchedUpTo(Min(i, Len(input_files)))
    IN  /\ Len(procs) = Len(output_files) + (IF pc = "append" THEN 1 ELSE 0)
        /\ \A k \in DOMAIN procs :
             /\ k <= Len(d)
             /\ procs[k].args = TemplateOf(Chosen(d[k])[1]) \o <<input_files[d[k]].path>>
             /\ procs[k].stdout \in disk
             /\ \A h \in DOMAIN procs : h # k => procs[h].stdout # procs[k].stdout
        /\ \A k \in DOMAIN output_files : output_files[k].path = procs[k].stdout
        /\ pc = "append" =>
             /\ procs[Len(procs)].stdout = output_file[1].path
             /\ output_file[1].display_name = input_files[i].display_name
        /\ pc \in {"open", "spawn"} =>
             \A k \in DOMAIN procs : procs[k].stdout # output_file[1].path

\* C9 witness: two files were dispatched, the first to fls -r and the second
\* to icat, and both processes are recorded.
C9_Witness ==
    /\ pc = "done"
    /\ Len(procs) = 2
    /\ procs[1].args = <<"fls", "-r", input_files[1].path>>
    /\ procs[2].args = <<"icat", input_files[2].path>>

-----------------------------------------------------------------------------
(* C10 *)

\* C10: recording an OutputFile never waits for its process, and a returned
\* result reports the output file of every spawned process, whatever the
\* process is doing or has returned.
C10_FireAndForget ==
    /\ pc = "append" => ENABLED RecordOutput
    /\ pc = "done" =>
          \A k \in DOMAIN procs :
              \E o \in Range(result[1].output_files) : o.path = procs[k].stdout

\* C10 witness: the result was returned while one reported process is still
\* running and another has failed.
C10_Witness ==
    /\ pc = "done"
    /\ \E k, h \in DOMAIN procs :
         /\ procs[k].status = "running"
         /\ procs[h].status = "failed"
         /\ \E o \in Range(result[1].output_files) : o.path = procs[k].stdout
         /\ \E o \in Range(result[1].output_files) : o.path = procs[h].stdout

====
